---- MODULE Spec2Model ----
(***************************************************************************)
(* Model of XML-Parsing/python_xml_examples.py:                            *)
(*   - PythonXMLUtilities.xml_to_dict and its nested function              *)
(*     xml_to_dict_recursive, run step by step over an Element tree;       *)
(*   - the ElementTree half of ErrorHandlingExamples.malformed_xml_handling*)
(*   - BookSAXHandler driven by a stream of SAX events.                    *)
(* Strings whose characters matter (element text, SAX character data) are  *)
(* sequences of one-character strings, so that str.strip() is computed.    *)
(***************************************************************************)
EXTENDS Integers, Sequences, FiniteSets, TLC

VARIABLES
    fn,               \* the example function of main() that is running
    pc,               \* its position
    doc,              \* the XML text handed to the parser (its content)
    tree,             \* the Element objects built by ET.fromstring
    root,             \* local `root` of xml_to_dict (0: unbound)
    stack,            \* active calls of xml_to_dict_recursive
    ret,              \* element -> value its call returned
    visited,          \* elements in the order their calls started
    xml_dict,         \* local `xml_dict` of xml_to_dict
    exc,              \* exception in flight or handled ("" : none)
    parses,           \* number of calls of ET.fromstring
    out,              \* what was printed (results and error reports)
    books,            \* BookSAXHandler.books
    current_book,     \* BookSAXHandler.current_book
    current_tag,      \* BookSAXHandler.current_tag
    current_content,  \* BookSAXHandler.current_content
    open,             \* names of the elements the SAX parser has open
    events,           \* SAX events delivered so far
    status            \* state of the SAX parse call

convVars == <<fn, pc, doc, tree, root, stack, ret, visited, xml_dict, exc, parses, out>>
saxVars == <<books, current_book, current_tag, current_content, open, events, status>>
vars == <<fn, pc, doc, tree, root, stack, ret, visited, xml_dict, exc, parses, out,
          books, current_book, current_tag, current_content, open, events, status>>

----------------------------------------------------------------------------
(* Bounds *)

MaxNodes == 3
MaxEvents == 6

----------------------------------------------------------------------------
(* Python values: str, dict, list, None, and the dict object that is an    *)
(* Element's attrib (kept by identity: the element that owns it).          *)

Str(s) == [k |-> "str", v |-> s]
Map(m) == [k |-> "map", v |-> m]
List(l) == [k |-> "list", v |-> l]
AttribOf(e) == [k |-> "attrib", v |-> e]
None == [k |-> "none", v |-> <<>>]
Empty == [x \in {} |-> None]

SetKey(m, key, val) == [x \in DOMAIN m \cup {key} |-> IF x = key THEN val ELSE m[x]]

\* the characters str.strip() removes that occur in the texts modelled
Whitespace == {" ", "\t", "\n", "\r"}

RECURSIVE lstrip(_)
lstrip(s) == IF s = <<>> THEN s
             ELSE IF Head(s) \in Whitespace THEN lstrip(Tail(s)) ELSE s

RECURSIVE rstrip(_)
rstrip(s) == IF s = <<>> THEN s
             ELSE IF s[Len(s)] \in Whitespace THEN rstrip(SubSeq(s, 1, Len(s) - 1)) ELSE s

\* only the leading whitespace is removed
strip_leading(s) == lstrip(s)

strip(s) == rstrip(lstrip(s))

\* Python truth value of a str-or-None
Truthy(t) == t.k = "str" /\ t.v # <<>>

----------------------------------------------------------------------------
(* Documents *)

Tags == {"text", "item"}
TextOpts == {None, Str(<<" ", " ">>), Str(<<" ", "a", " ">>)}
AttribOpts == {Empty, [id |-> <<"1">>]}

ParentFns(n) == {p \in [1..n -> 0..(n - 1)] : p[1] = 0 /\ \A i \in 2..n : p[i] \in 1..(i - 1)}

\* the root's tag is only used as the key of line 301: one tag for it
DocsOfSize(n) ==
    [wf : {TRUE}, n : {n}, parent : ParentFns(n),
     tag : {t \in [1..n -> Tags] : t[1] = "item"},
     attrib : [1..n -> AttribOpts], text : [1..n -> TextOpts]]

GenericDocs == UNION {DocsOfSize(n) : n \in 1..MaxNodes}

\* <book id="1"> <title>Clean Code</title> <author>R. Martin</author> </book>
BookDoc ==
    [wf |-> TRUE, n |-> 3, parent |-> <<0, 1, 1>>,
     tag |-> <<"book", "title", "author">>,
     attrib |-> <<[id |-> <<"1">>], Empty, Empty>>,
     text |-> <<Str(<<" ">>), Str(<<"C", "l", "e", "a", "n", " ", "C", "o", "d", "e">>),
                Str(<<"R", ".", " ", "M", "a", "r", "t", "i", "n">>)>>]

\* <library> <book><title>..</title></book> <book id="2"/> </library>
LibraryDoc ==
    [wf |-> TRUE, n |-> 4, parent |-> <<0, 1, 2, 1>>,
     tag |-> <<"library", "book", "title", "book">>,
     attrib |-> <<Empty, Empty, Empty, [id |-> <<"2">>]>>,
     text |-> <<Str(<<" ">>), Str(<<" ">>), Str(<<"S", "Q", "L">>), None>>]

\* malformed_xml: <title> is never closed
MalformedXml ==
    [wf |-> FALSE, n |-> 4, parent |-> <<0, 1, 2, 3>>,
     tag |-> <<"library", "book", "title", "author">>,
     attrib |-> <<Empty, [id |-> <<"1">>], Empty, Empty>>,
     text |-> <<Str(<<" ">>), Str(<<" ">>), Str(<<"U", " ">>), Str(<<"M">>)>>]

\* BOOKS_XML, lines 16-39
BooksXml ==
    [wf |-> TRUE, n |-> 19,
     parent |-> <<0, 1, 2, 2, 2, 2, 2, 1, 8, 8, 8, 8, 8, 1, 14, 14, 14, 14, 14>>,
     tag |-> <<"library", "book", "title", "author", "price", "published", "description", "book", "title", "author", "price", "published", "description", "book", "title", "author", "price", "published", "description">>,
     attrib |-> <<
        [name |-> <<"T", "e", "c", "h", " ", "L", "i", "b", "r", "a", "r", "y">>],
        [id |-> <<"1">>, category |-> <<"p", "r", "o", "g", "r", "a", "m", "m", "i", "n", "g">>],
        Empty,
        Empty,
        [currency |-> <<"U", "S", "D">>],
        Empty,
        Empty,
        [id |-> <<"2">>, category |-> <<"d", "a", "t", "a", "b", "a", "s", "e">>],
        Empty,
        Empty,
        [currency |-> <<"E", "U", "R">>],
        Empty,
        Empty,
        [id |-> <<"3">>, category |-> <<"w", "e", "b">>],
        Empty,
        Empty,
        [currency |-> <<"U", "S", "D">>],
        Empty,
        Empty>>,
     text |-> <<
        Str(<<"\n", " ", " ", " ", " ">>),
        Str(<<"\n", " ", " ", " ", " ", " ", " ", " ", " ">>),
        Str(<<"C", "l", "e", "a", "n", " ", "C", "o", "d", "e">>),
        Str(<<"R", "o", "b", "e", "r", "t", " ", "C", ".", " ", "M", "a", "r", "t", "i", "n">>),
        Str(<<"2", "9", ".", "9", "9">>),
        Str(<<"2", "0", "0", "8">>),
        Str(<<"A", " ", "g", "u", "i", "d", "e", " ", "t", "o", " ", "w", "r", "i", "t", "i", "n", "g", " ", "r", "e", "a", "d", "a", "b", "l", "e", ",", " ", "m", "a", "i", "n", "t", "a", "i", "n", "a", "b", "l", "e", " ", "c", "o", "d", "e">>),
        Str(<<"\n", " ", " ", " ", " ", " ", " ", " ", " ">>),
        Str(<<"S", "Q", "L", " ", "F", "u", "n", "d", "a", "m", "e", "n", "t", "a", "l", "s">>),
        Str(<<"J", "o", "h", "n", " ", "S", "m", "i", "t", "h">>),
        Str(<<"2", "4", ".", "5", "0">>),
        Str(<<"2", "0", "2", "0">>),
        Str(<<"C", "o", "m", "p", "l", "e", "t", "e", " ", "g", "u", "i", "d", "e", " ", "t", "o", " ", "S", "Q", "L", " ", "a", "n", "d", " ", "d", "a", "t", "a", "b", "a", "s", "e", " ", "d", "e", "s", "i", "g", "n">>),
        Str(<<"\n", " ", " ", " ", " ", " ", " ", " ", " ">>),
        Str(<<"M", "o", "d", "e", "r", "n", " ", "J", "a", "v", "a", "S", "c", "r", "i", "p", "t">>),
        Str(<<"S", "a", "r", "a", "h", " ", "J", "o", "h", "n", "s", "o", "n">>),
        Str(<<"3", "4", ".", "9", "9">>),
        Str(<<"2", "0", "2", "1">>),
        Str(<<"E", "S", "6", "+", " ", "f", "e", "a", "t", "u", "r", "e", "s", " ", "a", "n", "d", " ", "m", "o", "d", "e", "r", "n", " ", "d", "e", "v", "e", "l", "o", "p", "m", "e", "n", "t", " ", "p", "r", "a", "c", "t", "i", "c", "e", "s">>)>>]

Docs == GenericDocs \cup {BookDoc, LibraryDoc, BooksXml}

\* texts the parser rejects: a tag of the document is left unclosed
MalformedDocs == {[d EXCEPT !.wf = FALSE] : d \in DocsOfSize(1) \cup {BookDoc, MalformedXml}}

ChildrenOf(d, e) == SelectSeq([i \in 1..d.n |-> i], LAMBDA c : d.parent[c] = e)

\* ET.fromstring on well-formed text: the Element objects
fromstring(d) ==
    [e \in 1..d.n |-> [tag |-> d.tag[e], attrib |-> d.attrib[e], text |-> d.text[e],
                       children |-> ChildrenOf(d, e)]]

NoTree == <<>>

----------------------------------------------------------------------------
(* xml_to_dict_recursive *)

\* lines 274-284 without line 284: the text of an element that has children
\* is not recorded
Enter_dropText(e) ==
    LET el == tree[e]
        r0 == IF DOMAIN el.attrib # {} THEN SetKey(Empty, "@attributes", AttribOf(e))
              ELSE Empty
        hasText == Truthy(el.text) /\ Truthy(Str(strip(el.text.v)))
    IN  IF hasText /\ Len(el.children) = 0
        THEN [element |-> e, result |-> r0, i |-> 1, at |-> "return",
              value |-> Str(strip(el.text.v))]
        ELSE [element |-> e, result |-> r0, i |-> 1, at |-> "loop", value |-> None]

\* lines 274-284: the frame of a call on element e when it reaches the loop
\* over the children, or the early return of line 283
Enter(e) ==
    LET el == tree[e]
        r0 == IF DOMAIN el.attrib # {} THEN SetKey(Empty, "@attributes", AttribOf(e))
              ELSE Empty
        hasText == Truthy(el.text) /\ Truthy(Str(strip(el.text.v)))
    IN  IF hasText /\ Len(el.children) = 0
        THEN [element |-> e, result |-> r0, i |-> 1, at |-> "return",
              value |-> Str(strip(el.text.v))]
        ELSE [element |-> e,
              result |-> IF hasText THEN SetKey(r0, "text", Str(strip(el.text.v))) ELSE r0,
              i |-> 1, at |-> "loop", value |-> None]

\* lines 291-292 left out: the value is appended to as it is
Listify_skip(v) == v

\* lines 291-292: a value that is not a list is wrapped in a new list
Listify(v) == IF v.k # "list" THEN List(<<v>>) ELSE v

\* line 301 and json.dumps of line 304: the value as it is read through its
\* references (the attrib objects are read in the tree)
RECURSIVE Deref(_)
Deref(val) ==
    CASE val.k = "attrib" ->
            Map([a \in DOMAIN tree[val.v].attrib |-> Str(tree[val.v].attrib[a])])
      [] val.k = "map" -> Map([x \in DOMAIN val.v |-> Deref(val.v[x])])
      [] val.k = "list" -> List([j \in 1..Len(val.v) |-> Deref(val.v[j])])
      [] OTHER -> val

Top == stack[Len(stack)]
Caller == stack[Len(stack) - 1]
ReturnValue(f) == IF f.at = "return" THEN f.value ELSE Map(f.result)
SetTop(f) == [stack EXCEPT ![Len(stack)] = f]

\* except clauses that name xml.sax.SAXException only
Catches_sax(f, x) == x = "SAXException"

\* except clauses: line 306 catches Exception, line 369 only ET.ParseError
Catches(f, x) == IF f = "xml_to_dict" THEN TRUE ELSE x = "ParseError"

\* line 300 / line 368: ET.fromstring(...)
Parse ==
    /\ pc = "parse"
    /\ parses' = parses + 1
    /\ IF doc.wf
       THEN /\ tree' = fromstring(doc)
            /\ root' = 1
            /\ pc' = "call"
            /\ exc' = exc
       ELSE /\ exc' = "ParseError"
            /\ pc' = "raised"
            /\ UNCHANGED <<tree, root>>
    /\ UNCHANGED <<fn, doc, stack, ret, visited, xml_dict, out>>

\* line 301: the call xml_to_dict_recursive(root), run up to line 284
CallRoot ==
    /\ pc = "call"
    /\ fn = "xml_to_dict"
    /\ stack' = <<Enter(root)>>
    /\ visited' = Append(visited, root)
    /\ pc' = "convert"
    /\ UNCHANGED <<fn, doc, tree, root, ret, xml_dict, exc, parses, out>>

\* lines 287-288: the next child is converted by a recursive call
CallChild ==
    /\ pc = "convert"
    /\ Top.at = "loop"
    /\ Top.i <= Len(tree[Top.element].children)
    /\ LET child == tree[Top.element].children[Top.i]
       IN  /\ stack' = Append(stack, Enter(child))
           /\ visited' = Append(visited, child)
    /\ UNCHANGED <<fn, pc, doc, tree, root, ret, xml_dict, exc, parses, out>>

\* lines 297 and 283: a recursive call returns child_data to its caller
Return ==
    /\ pc = "convert"
    /\ Len(stack) > 1
    /\ \/ Top.at = "return"
       \/ Top.at = "loop" /\ Top.i > Len(tree[Top.element].children)
    /\ ret' = SetKey(ret, Top.element, ReturnValue(Top))
    /\ stack' = Append(SubSeq(stack, 1, Len(stack) - 2),
                       [Caller EXCEPT !.at = "store", !.value = ReturnValue(Top)])
    /\ UNCHANGED <<fn, pc, doc, tree, root, visited, xml_dict, exc, parses, out>>

\* lines 289-295: child_data is stored under the child's tag
Store ==
    /\ pc = "convert"
    /\ Top.at = "store"
    /\ LET child == tree[Top.element].children[Top.i]
           tag == tree[child].tag
           child_data == Top.value
       IN  IF tag \in DOMAIN Top.result
           THEN IF Listify(Top.result[tag]).k = "list"
                THEN /\ stack' = SetTop([Top EXCEPT
                            !.result = SetKey(Top.result, tag,
                                List(Append(Listify(Top.result[tag]).v, child_data))),
                            !.i = Top.i + 1, !.at = "loop", !.value = None])
                     /\ UNCHANGED <<pc, exc>>
                ELSE \* .append on a value that is not a list
                     /\ stack' = <<>>
                     /\ exc' = "AttributeError"
                     /\ pc' = "raised"
           ELSE /\ stack' = SetTop([Top EXCEPT
                            !.result = SetKey(Top.result, tag, child_data),
                            !.i = Top.i + 1, !.at = "loop", !.value = None])
                /\ UNCHANGED <<pc, exc>>
    /\ UNCHANGED <<fn, doc, tree, root, ret, visited, xml_dict, parses, out>>

\* line 301 with the root's conversion returned as it is, not keyed by the tag
ReturnRoot_unkeyed ==
    /\ pc = "convert"
    /\ Len(stack) = 1
    /\ \/ Top.at = "return"
       \/ Top.at = "loop" /\ Top.i > Len(tree[Top.element].children)
    /\ ret' = SetKey(ret, Top.element, ReturnValue(Top))
    /\ xml_dict' = ReturnValue(Top)
    /\ stack' = <<>>
    /\ pc' = "print"
    /\ UNCHANGED <<fn, doc, tree, root, visited, exc, parses, out>>

\* lines 297/283 for the call on root, and the dict display of line 301
ReturnRoot ==
    /\ pc = "convert"
    /\ Len(stack) = 1
    /\ \/ Top.at = "return"
       \/ Top.at = "loop" /\ Top.i > Len(tree[Top.element].children)
    /\ ret' = SetKey(ret, Top.element, ReturnValue(Top))
    /\ xml_dict' = Map(SetKey(Empty, tree[root].tag, ReturnValue(Top)))
    /\ stack' = <<>>
    /\ pc' = "print"
    /\ UNCHANGED <<fn, doc, tree, root, visited, exc, parses, out>>

\* line 304: print(json.dumps(xml_dict, indent=2))
PrintDict ==
    /\ pc = "print"
    /\ out' = Append(out, [k |-> "json", v |-> Deref(xml_dict)])
    /\ pc' = "done"
    /\ UNCHANGED <<fn, doc, tree, root, stack, ret, visited, xml_dict, exc, parses>>

\* lines 306-307 and 369-370: the except clause prints the error; an
\* exception the clause does not name leaves the function
Except ==
    /\ pc = "raised"
    /\ IF Catches(fn, exc)
       THEN /\ out' = Append(out, [k |-> "error", v |-> exc])
            /\ pc' = "done"
       ELSE /\ pc' = "propagated"
            /\ out' = out
    /\ UNCHANGED <<fn, doc, tree, root, stack, ret, visited, xml_dict, exc, parses>>

----------------------------------------------------------------------------
(* BookSAXHandler and the SAX parser that drives it *)

SaxNames == {"library", "book", "title", "price"}
BookAttrs == {Empty, [id |-> <<"1">>, category |-> <<"d", "b">>], [id |-> <<"2">>]}
PriceAttrs == {Empty, [currency |-> <<"U", "S", "D">>]}
CharData == {<<" ", "1">>, <<"a">>}
Digits == {"0", "1", "2", "3", "4", "5", "6", "7", "8", "9"}

AttrsFor(name) ==
    IF name = "book" THEN BookAttrs
    ELSE IF name = "price" THEN PriceAttrs
    ELSE {Empty}

\* attrs.get(key)
get(attrs, key) == IF key \in DOMAIN attrs THEN Str(attrs[key]) ELSE None

DigitVal(c) == CHOOSE d \in 0..9 : <<"0", "1", "2", "3", "4", "5", "6", "7", "8", "9">>[d + 1] = c

RECURSIVE Decimal(_)
Decimal(s) == IF s = <<>> THEN 0
              ELSE 10 * Decimal(SubSeq(s, 1, Len(s) - 1)) + DigitVal(s[Len(s)])

\* float(s): over the characters of CharData a string is a number exactly
\* when, stripped, it is a non-empty run of digits; otherwise ValueError
IsFloat(s) == strip(s) # <<>> /\ \A j \in 1..Len(strip(s)) : strip(s)[j] \in Digits
float(s) == [k |-> "float", v |-> Decimal(strip(s))]

TextTags == {"title", "author", "published", "description"}

NoEvents == [n |-> 0, last |-> "", bookStarts |-> <<>>, bookEnds |-> 0, nested |-> FALSE]

\* lines 155-165
startElement(name, attrs) ==
    /\ status = "parsing"
    /\ events.n < MaxEvents
    /\ open # <<>> \/ events.n = 0
    /\ current_tag' = name
    /\ current_content' = <<>>
    /\ current_book' =
          IF name = "book"
          THEN [id |-> get(attrs, "id"), category |-> get(attrs, "category")]
          ELSE IF name = "price"
               THEN SetKey(current_book, "currency", get(attrs, "currency"))
               ELSE current_book
    /\ open' = Append(open, name)
    /\ events' = [n |-> events.n + 1, last |-> "start",
                  bookStarts |-> IF name = "book" THEN Append(events.bookStarts, attrs)
                                 ELSE events.bookStarts,
                  bookEnds |-> events.bookEnds,
                  nested |-> events.nested
                             \/ (name = "book" /\ \E j \in 1..Len(open) : open[j] = "book")]
    /\ UNCHANGED <<books, status>>

\* lines 167-168
characters(content) ==
    /\ status = "parsing"
    /\ events.n < MaxEvents
    /\ open # <<>>
    /\ current_content' = current_content \o strip(content)
    /\ events' = [events EXCEPT !.n = events.n + 1, !.last = "characters"]
    /\ UNCHANGED <<books, current_book, current_tag, open, status>>

\* lines 170-179 without line 173: current_book is not reset after a book
endElement_keep ==
    /\ status = "parsing"
    /\ open # <<>>
    /\ LET name == open[Len(open)]
       IN  IF name = "price" /\ ~IsFloat(current_content)
           THEN /\ status' = "propagated"
                /\ UNCHANGED <<books, current_book, current_tag, current_content,
                               open, events>>
           ELSE /\ books' = IF name = "book" THEN Append(books, current_book) ELSE books
                /\ current_book' =
                      IF name \in TextTags
                      THEN SetKey(current_book, name, Str(current_content))
                      ELSE IF name = "price"
                           THEN SetKey(current_book, "price", float(current_content))
                           ELSE current_book
                /\ current_content' = <<>>
                /\ open' = SubSeq(open, 1, Len(open) - 1)
                /\ events' = [events EXCEPT !.n = events.n + 1, !.last = "end" \o name,
                                            !.bookEnds = events.bookEnds
                                                + (IF name = "book" THEN 1 ELSE 0)]
                /\ UNCHANGED <<current_tag, status>>

\* lines 170-179; the ValueError of float() is no SAXException: it leaves
\* parseString and the example function
endElement ==
    /\ status = "parsing"
    /\ open # <<>>
    /\ LET name == open[Len(open)]
       IN  IF name = "price" /\ ~IsFloat(current_content)
           THEN /\ status' = "propagated"
                /\ UNCHANGED <<books, current_book, current_tag, current_content,
                               open, events>>
           ELSE /\ books' = IF name = "book" THEN Append(books, current_book) ELSE books
                /\ current_book' =
                      IF name = "book" THEN Empty
                      ELSE IF name \in TextTags
                           THEN SetKey(current_book, name, Str(current_content))
                           ELSE IF name = "price"
                                THEN SetKey(current_book, "price", float(current_content))
                                ELSE current_book
                /\ current_content' = <<>>
                /\ open' = SubSeq(open, 1, Len(open) - 1)
                /\ events' = [events EXCEPT !.n = events.n + 1, !.last = "end" \o name,
                                            !.bookEnds = events.bookEnds
                                                + (IF name = "book" THEN 1 ELSE 0)]
                /\ UNCHANGED <<current_tag, status>>

\* the parser meets text that is not well formed: SAXParseException, caught
\* and printed by lines 237-238 (376-377)
fatalError ==
    /\ status = "parsing"
    /\ status' = "caught"
    /\ UNCHANGED <<books, current_book, current_tag, current_content, open, events>>

\* line 230: parseString returns after the root element is closed
endDocument ==
    /\ status = "parsing"
    /\ open = <<>>
    /\ events.n > 0
    /\ status' = "returned"
    /\ UNCHANGED <<books, current_book, current_tag, current_content, open, events>>

PrintKeys == {"id", "category", "title", "author", "price", "currency"}

\* lines 232-235: a record without one of the keys raises KeyError
PrintBooks ==
    /\ status = "returned"
    /\ status' = IF \A j \in 1..Len(books) : PrintKeys \subseteq DOMAIN books[j]
                 THEN "printed" ELSE "propagated"
    /\ UNCHANGED <<books, current_book, current_tag, current_content, open, events>>

InitSAX ==
    /\ books = <<>>
    /\ current_book = Empty
    /\ current_tag = ""
    /\ current_content = <<>>
    /\ open = <<>>
    /\ events = NoEvents
    /\ status = "idle"

InitConv ==
    /\ fn \in {"xml_to_dict", "malformed_xml_handling"}
    /\ doc \in (IF fn = "xml_to_dict" THEN Docs \cup MalformedDocs ELSE {MalformedXml})
    /\ pc = "parse"
    /\ tree = NoTree
    /\ root = 0
    /\ stack = <<>>
    /\ ret = Empty
    /\ visited = <<>>
    /\ xml_dict = None
    /\ exc = ""
    /\ parses = 0
    /\ out = <<>>

Init == InitConv /\ InitSAX

Next ==
    \/ (Parse /\ UNCHANGED saxVars)
    \/ (CallRoot /\ UNCHANGED saxVars)
    \/ (CallChild /\ UNCHANGED saxVars)
    \/ (Return /\ UNCHANGED saxVars)
    \/ (Store /\ UNCHANGED saxVars)
    \/ (ReturnRoot /\ UNCHANGED saxVars)
    \/ (PrintDict /\ UNCHANGED saxVars)
    \/ (Except /\ UNCHANGED saxVars)

Spec == Init /\ [][Next]_vars

\* SAXExamples.basic_sax_parsing: lines 229-230, a new handler and a parse
InitBasicSAX ==
    /\ fn = "basic_sax_parsing"
    /\ pc = "sax"
    /\ doc = None
    /\ tree = NoTree
    /\ root = 0
    /\ stack = <<>>
    /\ ret = Empty
    /\ visited = <<>>
    /\ xml_dict = None
    /\ exc = ""
    /\ parses = 0
    /\ out = <<>>
    /\ books = <<>>
    /\ current_book = Empty
    /\ current_tag = ""
    /\ current_content = <<>>
    /\ open = <<>>
    /\ events = NoEvents
    /\ status = "parsing"

NextSAX ==
    \/ (\E name \in SaxNames : \E attrs \in AttrsFor(name) :
            startElement(name, attrs) /\ UNCHANGED convVars)
    \/ (\E content \in CharData : characters(content) /\ UNCHANGED convVars)
    \/ (endElement /\ UNCHANGED convVars)
    \/ (fatalError /\ UNCHANGED convVars)
    \/ (endDocument /\ UNCHANGED convVars)
    \/ (PrintBooks /\ UNCHANGED convVars)

SpecSAX == InitBasicSAX /\ [][NextSAX]_vars

----------------------------------------------------------------------------
(* Vocabulary of the properties *)

Attrs(e) == tree[e].attrib
Kids(e) == tree[e].children
HasAttrs(e) == DOMAIN Attrs(e) # {}
AttrMap(e) == Map([a \in DOMAIN Attrs(e) |-> Str(Attrs(e)[a])])
KidsWithTag(e, N) == SelectSeq(Kids(e), LAMBDA c : tree[c].tag = N)
KidTags(e) == {tree[Kids(e)[j]].tag : j \in 1..Len(Kids(e))}

IsBlank(s) == \A j \in 1..Len(s) : s[j] \in Whitespace

\* T is the text s without its leading and trailing whitespace
IsStrippedOf(T, s) ==
    \E a \in 0..Len(s) : \E b \in a..Len(s) :
        /\ T = SubSeq(s, a + 1, b)
        /\ IsBlank(SubSeq(s, 1, a))
        /\ IsBlank(SubSeq(s, b + 1, Len(s)))
        /\ (T # <<>> => T[1] \notin Whitespace /\ T[Len(T)] \notin Whitespace)

\* the element's direct text, stripped; empty if absent
StrippedText(e) ==
    IF tree[e].text.k = "str"
    THEN CHOOSE T \in {SubSeq(tree[e].text.v, a, b) :
                          a \in 1..(Len(tree[e].text.v) + 1), b \in 0..Len(tree[e].text.v)} :
             IsStrippedOf(T, tree[e].text.v)
    ELSE <<>>

RECURSIVE HoldsAttrib(_)
HoldsAttrib(val) ==
    CASE val.k = "attrib" -> TRUE
      [] val.k = "map" -> \E x \in DOMAIN val.v : HoldsAttrib(val.v[x])
      [] val.k = "list" -> \E j \in 1..Len(val.v) : HoldsAttrib(val.v[j])
      [] OTHER -> FALSE

RECURSIVE Preorder(_)
Preorder(es) ==
    IF es = <<>> THEN <<>>
    ELSE <<Head(es)>> \o Preorder(ChildrenOf(doc, Head(es))) \o Preorder(Tail(es))

RECURSIVE Height(_)
Height(es) ==
    IF es = <<>> THEN 0
    ELSE LET h == 1 + Height(ChildrenOf(doc, Head(es)))
             t == Height(Tail(es))
         IN  IF h > t THEN h ELSE t

----------------------------------------------------------------------------
(* Properties of xml_to_dict_recursive *)

\* C1: an element with no children and at least one attribute converts to
\* a mapping with "@attributes" equal to its attribute mapping and, when its
\* stripped text is non-empty, "text" equal to that text; never to the bare
\* text string.
C1_AttributedLeafIsMapping ==
    \A e \in DOMAIN ret :
        (Kids(e) = <<>> /\ HasAttrs(e)) =>
            /\ ret[e].k = "map"
            /\ "@attributes" \in DOMAIN ret[e].v
            /\ Deref(ret[e].v["@attributes"]) = AttrMap(e)
            /\ (StrippedText(e) # <<>> =>
                    /\ "text" \in DOMAIN ret[e].v
                    /\ ret[e].v["text"] = Str(StrippedText(e)))

\* C2: when an element has k >= 2 children with tag N, the value under N is
\* the sequence of the k converted children in document order, for every N,
\* "text" included.
C2_RepeatedTagIsSequence ==
    \A e \in DOMAIN ret : \A N \in KidTags(e) :
        Len(KidsWithTag(e, N)) >= 2 =>
            /\ ret[e].k = "map"
            /\ N \in DOMAIN ret[e].v
            /\ ret[e].v[N] = List([j \in 1..Len(KidsWithTag(e, N)) |->
                                       ret[KidsWithTag(e, N)[j]]])

\* C3: when an element has exactly one child with tag N, the value under N
\* is that child's conversion, as a plain value and not a sequence, for
\* every N, "text" included.
C3_SingleChildIsPlain ==
    \A e \in DOMAIN ret : \A N \in KidTags(e) :
        Len(KidsWithTag(e, N)) = 1 =>
            /\ ret[e].k = "map"
            /\ N \in DOMAIN ret[e].v
            /\ ret[e].v[N] = ret[KidsWithTag(e, N)[1]]

\* C4: an element with no attributes, no children and non-empty stripped
\* text T converts to exactly the string T, the text without its leading
\* and trailing whitespace, and not to a mapping.
C4_PlainLeafIsText ==
    \A e \in DOMAIN ret :
        (~HasAttrs(e) /\ Kids(e) = <<>> /\ tree[e].text.k = "str"
            /\ ~IsBlank(tree[e].text.v)) =>
            /\ ret[e].k = "str"
            /\ ret[e].v # <<>>
            /\ IsStrippedOf(ret[e].v, tree[e].text.v)

C4_Witness ==
    \E e \in DOMAIN ret :
        /\ ~HasAttrs(e) /\ Kids(e) = <<>>
        /\ tree[e].text = Str(<<" ", "a", " ">>)
        /\ ret[e] = Str(<<"a">>)

\* C5: an element with at least one child converts to a mapping whose keys
\* are exactly "@attributes" (iff it has attributes), "text" (if its
\* stripped text is non-empty) and the distinct tags of its children, each
\* child's conversion being the value, or in the sequence, under its tag;
\* the book element of the scenario converts to the mapping of the scenario.
C5_ParentIsMapping ==
    /\ \A e \in DOMAIN ret :
        Kids(e) # <<>> =>
            /\ ret[e].k = "map"
            /\ DOMAIN ret[e].v =
                  (IF HasAttrs(e) THEN {"@attributes"} ELSE {})
                  \cup (IF StrippedText(e) # <<>> THEN {"text"} ELSE {})
                  \cup KidTags(e)
            /\ (HasAttrs(e) => Deref(ret[e].v["@attributes"]) = AttrMap(e))
            /\ \A j \in 1..Len(Kids(e)) :
                  LET c == Kids(e)[j]
                      held == ret[e].v[tree[c].tag]
                  IN  \/ held = ret[c]
                      \/ held.k = "list" /\ \E i \in 1..Len(held.v) : held.v[i] = ret[c]
    /\ (doc = BookDoc /\ 1 \in DOMAIN ret) =>
          Deref(ret[1]) =
              Map([x \in {"@attributes", "title", "author"} |->
                     IF x = "@attributes" THEN Map([id |-> Str(<<"1">>)])
                     ELSE IF x = "title"
                          THEN Str(<<"C", "l", "e", "a", "n", " ", "C", "o", "d", "e">>)
                          ELSE Str(<<"R", ".", " ", "M", "a", "r", "t", "i", "n">>)])

C5_Witness ==
    \E e \in DOMAIN ret :
        /\ HasAttrs(e)
        /\ StrippedText(e) # <<>>
        /\ Len(Kids(e)) = 2
        /\ DOMAIN ret[e].v = {"@attributes", "text", "item"}

\* C6: the value xml_to_dict builds is a mapping with exactly one key, the
\* root's tag, holding the root's conversion; for the library with two books
\* it is {"library": {"book": [convert(book1), convert(book2)]}}.
C6_TopLevelMapping ==
    /\ (pc \in {"print", "done"} /\ doc.wf) =>
          /\ xml_dict.k = "map"
          /\ DOMAIN xml_dict.v = {doc.tag[1]}
          /\ xml_dict.v[doc.tag[1]] = ret[root]
          /\ (pc = "done" => out = <<[k |-> "json", v |-> Deref(xml_dict)]>>)
    /\ (pc \in {"print", "done"} /\ doc = LibraryDoc) =>
          xml_dict = Map([library |-> Map([book |-> List(<<ret[2], ret[4]>>)])])
    /\ (pc \notin {"print", "done"} \/ ~doc.wf) => xml_dict = None

C6_Witness ==
    /\ pc = "done"
    /\ doc = LibraryDoc
    /\ xml_dict.v["library"].v["book"].v[1] = Map([title |-> Str(<<"S", "Q", "L">>)])

\* C7: the conversion leaves every Element of the tree unchanged and its
\* result shares no mutable object with the tree.
C7_PureNoSharing ==
    /\ tree # NoTree => tree = fromstring(doc)
    /\ \A e \in DOMAIN ret : ~HoldsAttrib(ret[e])
    /\ \A j \in 1..Len(stack) : ~HoldsAttrib(Map(stack[j].result))

\* C8: on every Element tree the conversion raises nothing, calls each
\* Element once in depth-first document order, never has more active calls
\* than the tree is deep, and ends with a value for the root: until it has
\* ended it can always take a step, and every step brings the end nearer.
C8_StepsLeft ==
    CASE pc = "parse" -> 3 * doc.n + 1
      [] pc = "call" -> 3 * doc.n
      [] pc = "convert" ->
            3 * doc.n - Len(visited) - 2 * Cardinality(DOMAIN ret)
                + (IF Top.at = "store" THEN 1 ELSE 0)
      [] pc \in {"print", "raised"} -> 1
      [] OTHER -> 0

C8_Safe ==
    /\ pc # "propagated"
    /\ exc \in {"", "ParseError"}
    /\ Len(visited) <= Len(Preorder(<<1>>))
    /\ visited = SubSeq(Preorder(<<1>>), 1, Len(visited))
    /\ Len(stack) <= Height(<<1>>)
    /\ C8_StepsLeft >= 0
    /\ (pc # "done" => ENABLED Next)
    /\ (pc = "done" /\ doc.wf) =>
          /\ visited = Preorder(<<1>>)
          /\ DOMAIN ret = 1..doc.n
          /\ ret[1].k \in {"str", "map"}
          /\ xml_dict.v[doc.tag[1]] = ret[1]

C8_TotalAndBounded == [](C8_Safe) /\ [][C8_StepsLeft' < C8_StepsLeft]_vars

C8_Witness ==
    /\ pc = "convert"
    /\ Len(stack) = 3
    /\ Height(<<1>>) = 3
    /\ visited = <<1, 2, 3>>

\* C9: when the text is malformed the parse error comes before any Element
\* exists, xml_to_dict_recursive is never called, the error is caught and
\* printed and does not leave the function, and the parser is called once.
C9_ParseErrorHandled ==
    ~doc.wf =>
        /\ tree = NoTree
        /\ root = 0
        /\ stack = <<>>
        /\ visited = <<>>
        /\ ret = Empty
        /\ xml_dict = None
        /\ parses <= 1
        /\ pc \in {"parse", "raised", "done"}
        /\ (pc = "raised" => exc = "ParseError" /\ parses = 1)
        /\ (pc = "done" => parses = 1 /\ out = <<[k |-> "error", v |-> "ParseError"]>>)

C9_Witness ==
    /\ pc = "done"
    /\ fn = "malformed_xml_handling"
    /\ doc = MalformedXml
    /\ exc = "ParseError"
    /\ Len(out) = 1

----------------------------------------------------------------------------
(* Properties of BookSAXHandler *)

\* C10: when no book element is nested in another, after every event the
\* number of records in books is the number of endElement("book") events,
\* the j-th record carries the id and category of the j-th book start event,
\* and current_book is empty right after each endElement("book").
C10_BooksFollowEvents ==
    ~events.nested =>
        /\ Len(books) = events.bookEnds
        /\ Len(books) <= Len(events.bookStarts)
        /\ \A j \in 1..Len(books) :
              /\ {"id", "category"} \subseteq DOMAIN books[j]
              /\ books[j]["id"] = get(events.bookStarts[j], "id")
              /\ books[j]["category"] = get(events.bookStarts[j], "category")
        /\ (events.last = "endbook" => current_book = Empty)

C10_Witness ==
    /\ ~events.nested
    /\ events.last = "endbook"
    /\ Len(books) = 2
    /\ books[1]["id"] = Str(<<"1">>)
    /\ books[2]["id"] = Str(<<"2">>)
    /\ books[2]["category"] = None

====
